---- MODULE Spec2Model ----
(***************************************************************************)
(* Model of server/firestore.py: the Firestore facade (api_keys,           *)
(* oauth_clients and users collections) and GoogleCalendarStorage, the     *)
(* oauth2client Storage that keeps a user's Google Calendar credentials    *)
(* in the user's document.                                                 *)
(*                                                                         *)
(* Values are tagged tuples so that values of different kinds can be       *)
(* compared: <<"int", n>> an application value, <<"json", ...>> a          *)
(* serialized credential, <<"text", s>> a string that is not credential    *)
(* JSON, <<"DELETE_FIELD">> the Firestore field-deletion sentinel.         *)
(***************************************************************************)
EXTENDS Integers, FiniteSets, Sequences, TLC

\* ---------------------------------------------------------------- bounds
MaxNow == 1            \* the clock stops after this many ticks
MaxExpiresIn == 1      \* largest expires_in (seconds) a token response carries
TicksPerSecond == 2    \* clock ticks per second (sub-second resolution)

\* ------------------------------------------------------------ collections
Keys == {"u1", "u2"}
Services == {"google_maps", "open_weather"}
CredField == "google_calendar_credentials"
Fields == {CredField, "home"}
Tokens == {"t1", "t2"}
RefreshTokens == {"r1"}
Adapters == {"a1", "a2", "a3"}
Threads == {"th1", "th2"}

DELETE_FIELD == <<"DELETE_FIELD">>
NoneValue == <<"None">>
NoExpiry == 0 - 1

\* A document snapshot: exists is false for a missing document.
NoDoc == [exists |-> FALSE, data |-> <<>>]
MkDoc(d) == [exists |-> TRUE, data |-> d]

\* The key each storage object is constructed with.
KeyOf(a) == IF a = "a3" THEN "u2" ELSE "u1"

\* ------------------------------------------------------------ credentials
\* An OAuth2Credentials object; token_expiry is in clock ticks, or NoExpiry.
Cred(at, rt, exp, inv, st) ==
    [access_token |-> at, refresh_token |-> rt, token_expiry |-> exp,
     invalid |-> inv, store |-> st]

\* OAuth2Credentials.to_json: the store is not serialized and the expiry is
\* written with EXPIRY_FORMAT, which has whole seconds only.
to_json(c) ==
    <<"json", c.access_token, c.refresh_token,
      IF c.token_expiry = NoExpiry THEN NoExpiry
      ELSE c.token_expiry \div TicksPerSecond,
      c.invalid>>

\* What json.loads and the constructor accept.
Parseable(json) == Len(json) = 5 /\ json[1] = "json"

\* OAuth2Credentials.from_json of a parseable blob: a fresh object, no store.
from_json(json) ==
    Cred(json[2], json[3],
         IF json[4] = NoExpiry THEN NoExpiry ELSE json[4] * TicksPerSecond,
         json[5], "None")

\* OAuth2Credentials.access_token_expired: an invalid credential counts as
\* expired; a credential without expiry never expires.
access_token_expired(c, now) ==
    IF c.invalid THEN TRUE
    ELSE IF c.token_expiry = NoExpiry THEN FALSE
    ELSE now >= c.token_expiry

\* ---------------------------------------------------------- Firestore ops
\* Firestore.user: the snapshot, or None for a missing document.
user(db, key) == db[key]

\* DocumentReference.set(data, merge=True): creates the document when
\* absent, overwrites the fields of data, removes those set to DELETE_FIELD.
MergeData(old, data) ==
    LET keep == {f \in (DOMAIN old) \cup (DOMAIN data) :
                    ~(f \in DOMAIN data /\ data[f] = DELETE_FIELD)}
    IN [f \in keep |-> IF f \in DOMAIN data THEN data[f] ELSE old[f]]

\* Variant: the document is replaced by the data instead of merged.
set_user_replace(db, key, data) ==
    [db EXCEPT ![key] = MkDoc(MergeData(<<>>, data))]

set_user(db, key, data) ==
    [db EXCEPT ![key] = MkDoc(MergeData(db[key].data, data))]

\* Variant: no existence check, a missing document is created.
update_user_create(db, key, fields) ==
    [db EXCEPT ![key] = MkDoc(MergeData(db[key].data, fields))]

\* Variant: the fields replace the document instead of patching it.
update_user_replace(db, key, fields) ==
    IF ~db[key].exists THEN db
    ELSE [db EXCEPT ![key] = MkDoc(MergeData(<<>>, fields))]

\* DocumentReference.update(fields) on an existing document.
update(db, key, fields) ==
    [db EXCEPT ![key] = MkDoc(MergeData(db[key].data, fields))]

\* Firestore.update_user: logs and returns when the document is missing.
update_user(db, key, fields) ==
    IF ~db[key].exists THEN db
    ELSE update(db, key, fields)

\* Variant: the blob is written under another field name.
update_google_calendar_credentials_field(db, key, credentials) ==
    update_user(db, key, [f \in {"home"} |-> to_json(credentials)])

update_google_calendar_credentials(db, key, credentials) ==
    update_user(db, key, [f \in {CredField} |-> to_json(credentials)])

\* Variant: the deletion is forgotten.
delete_google_calendar_credentials_skip(db, key) == db

\* Variant: the field is set to null instead of removed.
delete_google_calendar_credentials_null(db, key) ==
    update_user(db, key, [f \in {CredField} |-> NoneValue])

delete_google_calendar_credentials(db, key) ==
    update_user(db, key, [f \in {CredField} |-> DELETE_FIELD])


\* ------------------------------------------------- token endpoint outcomes
\* What credentials.refresh(build_http()) meets: a token response, an error
\* response (HttpAccessTokenRefreshError) or a failure of the transport.
Outcomes ==
    {<<"ok", t, e>> : t \in Tokens, e \in 1..MaxExpiresIn}
        \cup {<<"error">>, <<"transport">>}

\* ----------------------------------------------------------------- results
NoCred == Cred("", "", NoExpiry, FALSE, "None")
Ret(kind, c, exc, v, d) ==
    [kind |-> kind, cred |-> c, exc |-> exc, value |-> v, dict |-> d]
RetNone == Ret("None", NoCred, "", NoneValue, <<>>)
RetCred(c) == Ret("cred", c, "", NoneValue, <<>>)
RetRaise(e) == Ret("raise", NoCred, e, NoneValue, <<>>)
RetValue(v) == Ret("value", NoCred, "", v, <<>>)
RetDict(d) == Ret("dict", NoCred, "", NoneValue, d)

\* ------------------------------------------------------------------ state
VARIABLES
    users,          \* users collection: key -> document snapshot
    api_keys,       \* api_keys collection: service -> document snapshot
    oauth_clients,  \* the oauth_clients/google_calendar document
    apps,           \* number of registered Firebase apps (len(firebase_apps))
    initCalls,      \* number of calls of initialize_app so far
    now,            \* the clock, in ticks
    last,           \* the last completed call: operation, target, result
    pc,             \* per thread: the step it is at
    lock,           \* per storage object: the thread holding its lock
    local           \* per thread: the locals of the call in progress

vars == <<users, api_keys, oauth_clients, apps, initCalls, now, last, pc,
          lock, local>>
dbvars == <<users, api_keys, oauth_clients>>
threadvars == <<pc, lock, local>>

\* refreshes counts the token requests of the call, deletes the calls of
\* delete_google_calendar_credentials made by google_calendar_credentials.
Call(op, target, c, data, ret, refreshes) ==
    [op |-> op, target |-> target, cred |-> c, data |-> data, ret |-> ret,
     refreshes |-> refreshes, deletes |-> 0]
NoCall == Call("", "", NoCred, <<>>, RetNone, 0)
Local(op, a, c, fields, ret) ==
    [op |-> op, adapter |-> a, cred |-> c, fields |-> fields, ret |-> ret]
NoLocal == Local("", "", NoCred, <<>>, RetNone)

\* ------------------------------------------------------------- input sets
HomeValues == {<<"int", 1>>, <<"int", 2>>}
InputCreds ==
    {Cred(t, r, e, i, "None") :
        t \in Tokens, r \in RefreshTokens, e \in 0..(MaxNow + 1),
        i \in BOOLEAN}
BadBlob == <<"text", "not json">>
\* What a caller of set_user or update_user may write into the credential
\* field: a serialized credential or some other string.
CredValues == {BadBlob, to_json(Cred("t1", "r1", 0, TRUE, "None"))}
FieldValues(f) == IF f = CredField THEN CredValues ELSE HomeValues
\* The payloads of set_user and update_user: a value or DELETE_FIELD for
\* each field of a non-empty set of fields.
Payloads ==
    UNION {[S -> HomeValues \cup CredValues \cup {DELETE_FIELD}] :
              S \in (SUBSET Fields) \ {{}}}
WellTyped(data) ==
    \A f \in DOMAIN data : data[f] \in FieldValues(f) \cup {DELETE_FIELD}

\* ------------------------------------------------------------------- Init
ApiKeyStrings == {"key-A", "key-B"}
ApiKeyDoc(v) == MkDoc([f \in {"api_key"} |-> <<"text", v>>])
SecretsDoc ==
    MkDoc([f \in {"client_id", "client_secret"} |-> <<"text", f>>])

\* The state before the first Firestore() of the process.  User documents
\* are created by callers of set_user; the configuration documents are
\* provisioned outside the program and never written by it.
InitProcess ==
    /\ users = [k \in Keys |-> NoDoc]
    /\ apps = 0
    /\ initCalls = 0
    /\ now = 0
    /\ last = NoCall
    /\ pc = [t \in Threads |-> "idle"]
    /\ lock = [a \in Adapters |-> "free"]
    /\ local = [t \in Threads |-> NoLocal]

Init ==
    /\ InitProcess
    /\ api_keys = [s \in Services |->
                     IF s = "google_maps" THEN ApiKeyDoc("key-A") ELSE NoDoc]
    /\ oauth_clients = SecretsDoc

\* Every configuration: each configuration document present or missing.
InitConfig ==
    /\ InitProcess
    /\ api_keys \in [Services -> {NoDoc} \cup {ApiKeyDoc(v) : v \in ApiKeyStrings}]
    /\ oauth_clients \in {NoDoc, SecretsDoc}

\* ------------------------------------------------------- facade: lookups
Result(db, ret, refreshes) ==
    [db |-> db, ret |-> ret, refreshes |-> refreshes, deletes |-> 0]
\* The end of google_calendar_credentials, lines 86-89: the blob is deleted
\* and None returned.
Cleanup(db, key, refreshes) ==
    [db |-> delete_google_calendar_credentials(db, key), ret |-> RetNone,
     refreshes |-> refreshes, deletes |-> 1]

\* Variant: a missing document gives None instead of raising.
_api_key_none(keys, service) ==
    LET api_key == keys[service]
    IN IF ~api_key.exists THEN RetNone
       ELSE RetValue(api_key.data["api_key"])

\* Firestore._api_key
_api_key(keys, service) ==
    LET api_key == keys[service]
    IN IF ~api_key.exists THEN RetRaise("DataError")
       ELSE RetValue(api_key.data["api_key"])

\* Firestore.google_calendar_secrets
google_calendar_secrets(secrets) ==
    IF ~secrets.exists THEN RetRaise("DataError")
    ELSE RetDict(secrets.data)

\* OAuth2Credentials.refresh on a credential without store, token response
\* outcome: the new token and expiry are set and the credential is marked
\* valid.  Nothing is written: the object from_json built has no store.
refresh(c, outcome, t) ==
    [c EXCEPT !.access_token = outcome[2],
              !.token_expiry = t + outcome[3] * TicksPerSecond,
              !.invalid = FALSE]

\* Variant: a missing field is not answered with None, the call goes on to
\* the deletion at its end.
google_calendar_credentials_fall(db, key, t, outcome) ==
    LET u == user(db, key)
    IN IF ~u.exists THEN Result(db, RetNone, 0)
       ELSE IF CredField \notin DOMAIN u.data THEN Cleanup(db, key, 0)
       ELSE LET json == u.data[CredField]
            IN IF ~Parseable(json) THEN Result(db, RetRaise("ValueError"), 0)
               ELSE LET credentials == from_json(json)
                    IN IF ~credentials.invalid
                         THEN Result(db, RetCred(credentials), 0)
                       ELSE IF access_token_expired(credentials, t)
                                 /\ outcome[1] = "ok"
                         THEN Result(db,
                                     RetCred(refresh(credentials, outcome, t)),
                                     1)
                       ELSE IF access_token_expired(credentials, t)
                                 /\ outcome[1] = "transport"
                         THEN Result(db, RetRaise("TransportError"), 1)
                       ELSE Cleanup(db, key,
                                    IF access_token_expired(credentials, t)
                                      THEN 1 ELSE 0)

\* Firestore.google_calendar_credentials
google_calendar_credentials(db, key, t, outcome) ==
    LET u == user(db, key)
    IN IF ~u.exists THEN Result(db, RetNone, 0)
       ELSE IF CredField \notin DOMAIN u.data THEN Result(db, RetNone, 0)
       ELSE LET json == u.data[CredField]
            IN IF ~Parseable(json) THEN Result(db, RetRaise("ValueError"), 0)
               ELSE LET credentials == from_json(json)
                    IN IF ~credentials.invalid
                         THEN Result(db, RetCred(credentials), 0)
                       ELSE IF access_token_expired(credentials, t)
                                 /\ outcome[1] = "ok"
                         THEN Result(db,
                                     RetCred(refresh(credentials, outcome, t)),
                                     1)
                       ELSE IF access_token_expired(credentials, t)
                                 /\ outcome[1] = "transport"
                         THEN Result(db, RetRaise("TransportError"), 1)
                       ELSE Cleanup(db, key,
                                    IF access_token_expired(credentials, t)
                                      THEN 1 ELSE 0)

\* Variant: the storage is not attached.
set_store_skip(c, a) == c

\* Credentials.set_store
set_store(c, a) == [c EXCEPT !.store = a]

\* GoogleCalendarStorage.locked_get
locked_get(db, a, t, outcome) ==
    LET r == google_calendar_credentials(db, KeyOf(a), t, outcome)
    IN IF r.ret.kind = "cred"
         THEN [r EXCEPT !.ret = RetCred(set_store(r.ret.cred, a))]
         ELSE r

\* GoogleCalendarStorage.locked_put
locked_put(db, a, credentials) ==
    update_google_calendar_credentials(db, KeyOf(a), credentials)

\* GoogleCalendarStorage.locked_delete
locked_delete(db, a) == delete_google_calendar_credentials(db, KeyOf(a))

\* Firestore.__init__: initialize_app is called when no app is registered.
NeedsInit(n) == n = 0

\* --------------------------------------------- actions: one call at a time
Idle == \A t \in Threads : pc[t] = "idle"
Ready == Idle /\ apps > 0

\* Firestore() constructed, alone or by GoogleCalendarStorage.__init__.
NewFirestore ==
    /\ Idle
    /\ apps' = IF NeedsInit(apps) THEN apps + 1 ELSE apps
    /\ initCalls' = IF NeedsInit(apps) THEN initCalls + 1 ELSE initCalls
    /\ last' = Call("Firestore", "", NoCred, <<>>, RetNone, 0)
    /\ UNCHANGED <<dbvars, now, threadvars>>

Tick ==
    /\ Idle
    /\ now < MaxNow
    /\ now' = now + 1
    /\ last' = NoCall
    /\ UNCHANGED <<dbvars, apps, initCalls, threadvars>>

SetUser(key, data) ==
    /\ Ready
    /\ users' = set_user(users, key, data)
    /\ last' = Call("set_user", key, NoCred, data, RetNone, 0)
    /\ UNCHANGED <<api_keys, oauth_clients, apps, initCalls, now, threadvars>>

UpdateUser(key, fields) ==
    /\ Ready
    /\ users' = update_user(users, key, fields)
    /\ last' = Call("update_user", key, NoCred, fields, RetNone, 0)
    /\ UNCHANGED <<api_keys, oauth_clients, apps, initCalls, now, threadvars>>

DeleteCredentials(key) ==
    /\ Ready
    /\ users' = delete_google_calendar_credentials(users, key)
    /\ last' = Call("delete_google_calendar_credentials", key, NoCred, <<>>,
                    RetNone, 0)
    /\ UNCHANGED <<api_keys, oauth_clients, apps, initCalls, now, threadvars>>

ApiKey(service) ==
    /\ Ready
    /\ last' = Call("_api_key", service, NoCred, <<>>,
                    _api_key(api_keys, service), 0)
    /\ UNCHANGED <<dbvars, apps, initCalls, now, threadvars>>

Secrets ==
    /\ Ready
    /\ last' = Call("google_calendar_secrets", "google_calendar", NoCred,
                    <<>>, google_calendar_secrets(oauth_clients), 0)
    /\ UNCHANGED <<dbvars, apps, initCalls, now, threadvars>>

LockedGet(a, outcome) ==
    /\ Ready
    /\ LET r == locked_get(users, a, now, outcome)
       IN /\ users' = r.db
          /\ last' = [Call("locked_get", a, NoCred, <<>>, r.ret,
                            r.refreshes) EXCEPT !.deletes = r.deletes]
    /\ UNCHANGED <<api_keys, oauth_clients, apps, initCalls, now, threadvars>>

LockedPut(a, credentials) ==
    /\ Ready
    /\ users' = locked_put(users, a, credentials)
    /\ last' = Call("locked_put", a, credentials, <<>>, RetNone, 0)
    /\ UNCHANGED <<api_keys, oauth_clients, apps, initCalls, now, threadvars>>

LockedDelete(a) ==
    /\ Ready
    /\ users' = locked_delete(users, a)
    /\ last' = Call("locked_delete", a, NoCred, <<>>, RetNone, 0)
    /\ UNCHANGED <<api_keys, oauth_clients, apps, initCalls, now, threadvars>>

Next ==
    \/ NewFirestore
    \/ Tick
    \/ \E key \in Keys, data \in Payloads :
           WellTyped(data) /\ SetUser(key, data)
    \/ \E key \in Keys, fields \in Payloads :
           WellTyped(fields) /\ UpdateUser(key, fields)
    \/ \E key \in Keys : DeleteCredentials(key)
    \/ \E service \in Services : ApiKey(service)
    \/ Secrets
    \/ \E a \in Adapters, outcome \in Outcomes : LockedGet(a, outcome)
    \/ \E a \in Adapters, c \in InputCreds : LockedPut(a, c)
    \/ \E a \in Adapters : LockedDelete(a)

Spec == Init /\ [][Next]_vars

\* The configuration lookups alone, over every configuration.
NextConfig ==
    \/ NewFirestore
    \/ Tick
    \/ \E service \in Services : ApiKey(service)
    \/ Secrets

SpecConfig == InitConfig /\ [][NextConfig]_vars

\* ------------------------------------------- actions: threads, step by step
\* Each step is one statement that reads or writes shared state: the check
\* of firebase_apps, initialize_app, one Firestore round trip, one token
\* request, one lock operation.

\* Variant: the storage is built without a lock, acquire_lock does nothing.
CanAcquire_nolock(l, a) == TRUE

\* Storage.acquire_lock on the Lock() made by GoogleCalendarStorage.__init__:
\* one lock per storage object, free or held by one thread.
CanAcquire(l, a) == l[a] = "free"

ThreadCreds ==
    {Cred("t2", "r1", MaxNow + 1, FALSE, "None"),
     Cred("t1", "r1", 0, TRUE, "None")}
ThreadPayloads == {[f \in {"home"} |-> <<"int", 1>>]}

\* Firestore.__init__, line 22: the test of firebase_apps.
T_CheckApps(t) ==
    /\ pc[t] = "idle"
    /\ pc' = [pc EXCEPT ![t] = IF NeedsInit(apps) THEN "initialize_app"
                               ELSE "client"]
    /\ local' = [local EXCEPT ![t] = Local("Firestore", "", NoCred, <<>>,
                                           RetNone)]
    /\ UNCHANGED <<dbvars, apps, initCalls, now, last, lock>>

\* Firestore.__init__, line 23: initialize_app registers the default app and
\* raises ValueError when it is registered already.
T_InitializeApp(t) ==
    /\ pc[t] = "initialize_app"
    /\ initCalls' = initCalls + 1
    /\ IF apps = 0
         THEN /\ apps' = apps + 1
              /\ pc' = [pc EXCEPT ![t] = "client"]
              /\ UNCHANGED local
         ELSE /\ apps' = apps
              /\ pc' = [pc EXCEPT ![t] = "failed"]
              /\ local' = [local EXCEPT ![t].ret = RetRaise("ValueError")]
    /\ UNCHANGED <<dbvars, now, last, lock>>

\* Firestore.__init__, line 26, and the return of the constructor.
T_Client(t) ==
    /\ pc[t] = "client"
    /\ pc' = [pc EXCEPT ![t] = "idle"]
    /\ local' = [local EXCEPT ![t] = NoLocal]
    /\ UNCHANGED <<dbvars, apps, initCalls, now, last, lock>>

\* The caller of a constructor that raised goes on.
T_Failed(t) ==
    /\ pc[t] = "failed"
    /\ pc' = [pc EXCEPT ![t] = "idle"]
    /\ local' = [local EXCEPT ![t] = NoLocal]
    /\ UNCHANGED <<dbvars, apps, initCalls, now, last, lock>>

\* Firestore.set_user: one merge write.
T_SetUser(t, key, data) ==
    /\ pc[t] = "idle"
    /\ apps > 0
    /\ users' = set_user(users, key, data)
    /\ UNCHANGED <<api_keys, oauth_clients, apps, initCalls, now, last,
                   threadvars>>

\* Storage.get, put or delete: the lock of the storage is taken, then the
\* locked_ method runs.
T_Acquire(t, a, op, c) ==
    /\ pc[t] = "idle"
    /\ apps > 0
    /\ CanAcquire(lock, a)
    /\ lock' = [lock EXCEPT ![a] = t]
    /\ pc' = [pc EXCEPT ![t] = IF op = "locked_get" THEN "get_read"
                               ELSE "update_check"]
    /\ local' = [local EXCEPT ![t] =
          Local(op, a, c,
                IF op = "locked_put"
                  THEN [f \in {CredField} |-> to_json(c)]
                  ELSE [f \in {CredField} |-> DELETE_FIELD],
                RetNone)]
    /\ UNCHANGED <<dbvars, apps, initCalls, now, last>>

\* google_calendar_credentials, lines 61-75: the document is fetched once;
\* a missing document or field, an unparseable blob and a valid credential
\* end the call, an invalid credential goes on to the refresh.
T_GetRead(t) ==
    /\ pc[t] = "get_read"
    /\ LET a == local[t].adapter
           u == user(users, KeyOf(a))
       IN IF ~u.exists \/ CredField \notin DOMAIN u.data
            THEN /\ pc' = [pc EXCEPT ![t] = "release"]
                 /\ local' = [local EXCEPT ![t].ret = RetNone]
          ELSE IF ~Parseable(u.data[CredField])
            THEN /\ pc' = [pc EXCEPT ![t] = "release"]
                 /\ local' = [local EXCEPT ![t].ret = RetRaise("ValueError")]
          ELSE IF ~from_json(u.data[CredField]).invalid
            THEN /\ pc' = [pc EXCEPT ![t] = "release"]
                 /\ local' = [local EXCEPT ![t].ret =
                       RetCred(set_store(from_json(u.data[CredField]), a))]
          ELSE /\ pc' = [pc EXCEPT ![t] =
                     IF access_token_expired(from_json(u.data[CredField]),
                                             now)
                       THEN "refresh" ELSE "update_check"]
               /\ local' = [local EXCEPT ![t].cred =
                                from_json(u.data[CredField])]
    /\ UNCHANGED <<dbvars, apps, initCalls, now, last, lock>>

\* google_calendar_credentials, lines 78-84: the token request.
T_Refresh(t, outcome) ==
    /\ pc[t] = "refresh"
    /\ IF outcome[1] = "ok"
         THEN /\ pc' = [pc EXCEPT ![t] = "release"]
              /\ local' = [local EXCEPT ![t].ret =
                    RetCred(set_store(refresh(local[t].cred, outcome, now),
                                      local[t].adapter))]
       ELSE IF outcome[1] = "transport"
         THEN /\ pc' = [pc EXCEPT ![t] = "release"]
              /\ local' = [local EXCEPT ![t].ret = RetRaise("TransportError")]
       ELSE /\ pc' = [pc EXCEPT ![t] = "update_check"]
            /\ UNCHANGED local
    /\ UNCHANGED <<dbvars, apps, initCalls, now, last, lock>>

\* update_user, lines 131-134: the existence check.
T_UpdateCheck(t) ==
    /\ pc[t] = "update_check"
    /\ pc' = [pc EXCEPT ![t] =
          IF users[KeyOf(local[t].adapter)].exists THEN "update_write"
          ELSE "release"]
    /\ UNCHANGED <<dbvars, apps, initCalls, now, last, lock, local>>

\* update_user, line 136: the write.
T_UpdateWrite(t) ==
    /\ pc[t] = "update_write"
    /\ users' = update(users, KeyOf(local[t].adapter), local[t].fields)
    /\ pc' = [pc EXCEPT ![t] = "release"]
    /\ UNCHANGED <<api_keys, oauth_clients, apps, initCalls, now, last, lock,
                   local>>

\* Storage.release_lock, in the finally clause of get, put and delete.
T_Release(t) ==
    /\ pc[t] = "release"
    /\ lock' = [lock EXCEPT ![local[t].adapter] = "free"]
    /\ pc' = [pc EXCEPT ![t] = "idle"]
    /\ local' = [local EXCEPT ![t] = NoLocal]
    /\ UNCHANGED <<dbvars, apps, initCalls, now, last>>

NextThreads ==
    \E t \in Threads :
        \/ T_CheckApps(t)
        \/ T_InitializeApp(t)
        \/ T_Client(t)
        \/ T_Failed(t)
        \/ \E key \in Keys, data \in ThreadPayloads : T_SetUser(t, key, data)
        \/ \E a \in Adapters : T_Acquire(t, a, "locked_get", NoCred)
        \/ \E a \in Adapters, c \in ThreadCreds :
               T_Acquire(t, a, "locked_put", c)
        \/ \E a \in Adapters : T_Acquire(t, a, "locked_delete", NoCred)
        \/ T_GetRead(t)
        \/ \E outcome \in Outcomes : T_Refresh(t, outcome)
        \/ T_UpdateCheck(t)
        \/ T_UpdateWrite(t)
        \/ T_Release(t)

SpecThreads == Init /\ [][NextThreads]_vars

\* ===================================================== properties (calls)
HasCred(db, key) == db[key].exists /\ CredField \in DOMAIN db[key].data
Blob(db, key) == db[key].data[CredField]
HasCredential(db, key) == HasCred(db, key) /\ Parseable(Blob(db, key))
Stored(db, key) == from_json(Blob(db, key))

\* The fields of the document of key other than those in S are as before.
SameFieldsExcept(key, S) ==
    \A f \in ((DOMAIN users[key].data) \cup (DOMAIN users'[key].data)) \ S :
        /\ f \in DOMAIN users[key].data
        /\ f \in DOMAIN users'[key].data
        /\ users'[key].data[f] = users[key].data[f]
OtherUsersSame(key) == \A k \in Keys \ {key} : users'[k] = users[k]
\* The payload has been applied to the document of key, field by field.
Applied(key, data) ==
    /\ users'[key].exists
    /\ \A f \in DOMAIN data :
          IF data[f] = DELETE_FIELD
            THEN f \notin DOMAIN users'[key].data
            ELSE /\ f \in DOMAIN users'[key].data
                 /\ users'[key].data[f] = data[f]
    /\ SameFieldsExcept(key, DOMAIN data)
    /\ OtherUsersSame(key)

\* C1: a locked_get that finds a stored credential with an expired access
\* token, with a token endpoint that answers with a new token, returns the
\* credential carrying the new token, and the blob in the user's document
\* holds the new token when it returns.
C1_RefreshIsPersisted ==
    [][last'.op = "locked_get" =>
       LET a == last'.target
       IN \A o \in Outcomes :
             (/\ o[1] = "ok"
              /\ HasCredential(users, KeyOf(a))
              /\ access_token_expired(Stored(users, KeyOf(a)), now)
              /\ LockedGet(a, o))
             => /\ last'.ret.kind = "cred"
                /\ last'.ret.cred.access_token = o[2]
                /\ HasCredential(users', KeyOf(a))
                /\ Stored(users', KeyOf(a)).access_token = o[2]
                /\ ~Stored(users', KeyOf(a)).invalid]_vars

\* A locked_get on a document without the credential field returns None and
\* leaves the field absent.
AbsentStaysNone(a, o) ==
    (~HasCred(users, KeyOf(a)) /\ LockedGet(a, o))
    => (last'.ret.kind = "None" /\ users' = users)

\* C2 as stated: a locked_get that finds an expired stored credential, with
\* a token endpoint that answers with an error, returns None and has removed
\* the field; later reads of the absent field return None.
C2_ExpiredFailureCleansUp ==
    [][last'.op = "locked_get" =>
       LET a == last'.target
       IN /\ (/\ HasCredential(users, KeyOf(a))
              /\ access_token_expired(Stored(users, KeyOf(a)), now)
              /\ LockedGet(a, <<"error">>))
             => (last'.ret.kind = "None" /\ ~HasCred(users', KeyOf(a)))
          /\ \A o \in Outcomes : AbsentStaysNone(a, o)]_vars

\* C2: a locked_get that finds a stored credential that is expired and
\* marked invalid, with a token endpoint that answers with an error, returns
\* None and has removed the field from the user's document, leaving the rest
\* of the store as it was; a locked_get on a document without the field
\* returns None and leaves it absent.
C2_InvalidFailureCleansUp ==
    [][last'.op = "locked_get" =>
       LET a == last'.target
       IN /\ (/\ HasCredential(users, KeyOf(a))
              /\ Stored(users, KeyOf(a)).invalid
              /\ access_token_expired(Stored(users, KeyOf(a)), now)
              /\ LockedGet(a, <<"error">>))
             => /\ last'.ret.kind = "None"
                /\ last'.refreshes = 1
                /\ users'[KeyOf(a)].exists
                /\ ~HasCred(users', KeyOf(a))
                /\ SameFieldsExcept(KeyOf(a), {CredField})
                /\ OtherUsersSame(KeyOf(a))
          /\ \A o \in Outcomes : AbsentStaysNone(a, o)]_vars

\* A locked_get tried the token endpoint, returned None, and the document
\* exists without the credential field.
C2_Witness ==
    /\ last.op = "locked_get"
    /\ last.refreshes = 1
    /\ last.ret.kind = "None"
    /\ users[KeyOf(last.target)].exists
    /\ ~HasCred(users, KeyOf(last.target))

\* The call before this step was locked_put on a of a valid credential whose
\* access token has not expired.
JustPut(a) ==
    /\ last.op = "locked_put"
    /\ last.target = a
    /\ ~last.cred.invalid
    /\ ~access_token_expired(last.cred, now)

\* C3 as stated: locked_put of a valid, non-expired credential followed at
\* once by locked_get on the same storage returns a credential with the
\* same tokens and expiry, without a refresh and without changing the store.
C3_RoundTripAnyKey ==
    [][last'.op = "locked_get" =>
       LET a == last'.target
       IN \A o \in Outcomes :
             (JustPut(a) /\ LockedGet(a, o))
             => /\ last'.ret.kind = "cred"
                /\ last'.ret.cred.access_token = last.cred.access_token
                /\ last'.ret.cred.refresh_token = last.cred.refresh_token
                /\ last'.ret.cred.token_expiry = last.cred.token_expiry
                /\ ~last'.ret.cred.invalid
                /\ last'.refreshes = 0
                /\ users' = users]_vars

\* C3: when the user document of the storage exists, locked_put of a valid,
\* non-expired credential followed at once by locked_get on the same storage
\* returns a valid credential with the same access and refresh tokens and
\* the same expiry cut to the whole second, without a refresh and without
\* changing the store.
C3_RoundTripExistingUser ==
    [][last'.op = "locked_get" =>
       LET a == last'.target
       IN \A o \in Outcomes :
             (JustPut(a) /\ users[KeyOf(a)].exists /\ LockedGet(a, o))
             => /\ last'.ret.kind = "cred"
                /\ last'.ret.cred.access_token = last.cred.access_token
                /\ last'.ret.cred.refresh_token = last.cred.refresh_token
                /\ last'.ret.cred.token_expiry =
                     (last.cred.token_expiry \div TicksPerSecond)
                         * TicksPerSecond
                /\ ~last'.ret.cred.invalid
                /\ last'.refreshes = 0
                /\ users' = users]_vars

\* A locked_get returned, without refresh, a credential whose blob is in an
\* existing document and whose expiry is in the future.
C3_Witness ==
    /\ last.op = "locked_get"
    /\ last.ret.kind = "cred"
    /\ last.refreshes = 0
    /\ ~last.ret.cred.invalid
    /\ last.ret.cred.token_expiry > now
    /\ HasCredential(users, KeyOf(last.target))
    /\ Blob(users, KeyOf(last.target)) = to_json(last.ret.cred)

\* C4 as stated: after locked_put the credential field of the document of
\* the storage's key holds the serialized credential and the other fields
\* are as before, whether or not the document existed.
C4_PutAlwaysWrites ==
    [][last'.op = "locked_put" =>
       LET a == last'.target
       IN LockedPut(a, last'.cred)
          => /\ HasCred(users', KeyOf(a))
             /\ Blob(users', KeyOf(a)) = to_json(last'.cred)
             /\ SameFieldsExcept(KeyOf(a), {CredField})]_vars

\* C4: after locked_put on a storage whose user document exists (with or
\* without a credential field) the credential field of that document holds
\* the serialized credential and every other field and document is as
\* before; when the document does not exist locked_put leaves the users
\* collection unchanged.
C4_PutPatchesExisting ==
    [][last'.op = "locked_put" =>
       LET a == last'.target
       IN LockedPut(a, last'.cred)
          => IF users[KeyOf(a)].exists
               THEN /\ HasCred(users', KeyOf(a))
                    /\ Blob(users', KeyOf(a)) = to_json(last'.cred)
                    /\ SameFieldsExcept(KeyOf(a), {CredField})
                    /\ OtherUsersSame(KeyOf(a))
               ELSE users' = users]_vars

\* A locked_put wrote its credential into a document that has another field.
C4_Witness ==
    /\ last.op = "locked_put"
    /\ HasCred(users, KeyOf(last.target))
    /\ Blob(users, KeyOf(last.target)) = to_json(last.cred)
    /\ "home" \in DOMAIN users[KeyOf(last.target)].data

\* The credential field of an existing document of key is removed and
\* nothing else changes.
FieldRemoved(key) ==
    /\ users'[key].exists
    /\ ~HasCred(users', key)
    /\ SameFieldsExcept(key, {CredField})
    /\ OtherUsersSame(key)

\* C7: after delete_google_calendar_credentials(key), and after
\* locked_delete on a storage for key, on an existing user document the
\* credential field is absent, the other fields keep their values and the
\* other documents are unchanged.
C7_DeleteFrame ==
    [][/\ last'.op = "delete_google_calendar_credentials"
          => ((users[last'.target].exists /\ DeleteCredentials(last'.target))
              => FieldRemoved(last'.target))
       /\ last'.op = "locked_delete"
          => ((users[KeyOf(last'.target)].exists /\ LockedDelete(last'.target))
              => FieldRemoved(KeyOf(last'.target)))]_vars

\* A deletion has run on an existing document that keeps another field.
C7_Witness ==
    /\ last.op \in {"delete_google_calendar_credentials", "locked_delete"}
    /\ LET key == IF last.op = "locked_delete" THEN KeyOf(last.target)
                  ELSE last.target
       IN /\ users[key].exists
          /\ ~HasCred(users, key)
          /\ "home" \in DOMAIN users[key].data

\* C8: update_user on a key without document returns normally and leaves
\* the users collection unchanged; on an existing document it sets the given
\* fields, removes those given as DELETE_FIELD and leaves the rest.
C8_UpdateUser ==
    [][last'.op = "update_user" =>
       LET key == last'.target
       IN UpdateUser(key, last'.data)
          => /\ last'.ret.kind = "None"
             /\ IF users[key].exists THEN Applied(key, last'.data)
                ELSE users' = users]_vars

\* An update_user ran on a key that has no document.
C8_Witness ==
    /\ last.op = "update_user"
    /\ ~users[last.target].exists
    /\ \E k \in Keys : users[k].exists

\* C9: set_user creates the document when absent, sets the fields of its
\* data and touches no other field; after set_user(key, d1) and then
\* set_user(key, d2) every field of d2 has its d2 value and every field of
\* d1 not named in d2 has its d1 value (a DELETE_FIELD entry: is absent).
C9_SetUserMerge ==
    [][last'.op = "set_user" =>
       LET key == last'.target
       IN SetUser(key, last'.data)
          => /\ Applied(key, last'.data)
             /\ (last.op = "set_user" /\ last.target = key)
                => \A f \in (DOMAIN last.data) \ (DOMAIN last'.data) :
                      IF last.data[f] = DELETE_FIELD
                        THEN f \notin DOMAIN users'[key].data
                        ELSE /\ f \in DOMAIN users'[key].data
                             /\ users'[key].data[f] = last.data[f]]_vars

\* A set_user has left a document with two fields of which it wrote one.
C9_Witness ==
    /\ last.op = "set_user"
    /\ DOMAIN users[last.target].data = Fields
    /\ DOMAIN last.data # Fields

\* C10: an API key lookup raises DataError exactly when the api_keys
\* document of the service is missing and otherwise returns the stored
\* api_key string; google_calendar_secrets raises DataError exactly when
\* the oauth_clients document is missing and otherwise returns its fields;
\* neither changes the store.
C10_MissingConfig ==
    [][/\ last'.op = "_api_key"
          => (ApiKey(last'.target)
              => /\ UNCHANGED dbvars
                 /\ IF api_keys[last'.target].exists
                      THEN /\ last'.ret.kind = "value"
                           /\ last'.ret.value
                                = api_keys[last'.target].data["api_key"]
                      ELSE /\ last'.ret.kind = "raise"
                           /\ last'.ret.exc = "DataError")
       /\ last'.op = "google_calendar_secrets"
          => (Secrets
              => /\ UNCHANGED dbvars
                 /\ IF oauth_clients.exists
                      THEN /\ last'.ret.kind = "dict"
                           /\ last'.ret.dict = oauth_clients.data
                      ELSE /\ last'.ret.kind = "raise"
                           /\ last'.ret.exc = "DataError")]_vars

\* One lookup has raised DataError in a configuration where the other API
\* key exists.
C10_Witness ==
    /\ last.op = "_api_key"
    /\ last.ret.kind = "raise"
    /\ \E s \in Services : api_keys[s].exists

\* C11: a locked_get on a storage whose user document is missing, or
\* exists without the credential field, returns None without raising, makes
\* no token request and no deletion and leaves the store unchanged;
\* locked_put and locked_delete on a missing user document return normally.
C11_RecoverableAbsence ==
    [][/\ last'.op = "locked_get"
          => \A o \in Outcomes :
                (/\ ~HasCred(users, KeyOf(last'.target))
                 /\ LockedGet(last'.target, o))
                => /\ last'.ret = RetNone
                   /\ last'.refreshes = 0
                   /\ last'.deletes = 0
                   /\ users' = users
       /\ last'.op = "locked_put"
          => ((/\ ~users[KeyOf(last'.target)].exists
               /\ LockedPut(last'.target, last'.cred))
              => last'.ret.kind = "None")
       /\ last'.op = "locked_delete"
          => ((/\ ~users[KeyOf(last'.target)].exists
               /\ LockedDelete(last'.target))
              => last'.ret.kind = "None")]_vars

\* A locked_get returned None for a document that exists, has another field
\* and has no credential field, without token request or deletion.
C11_Witness ==
    /\ last.op = "locked_get"
    /\ last.ret.kind = "None"
    /\ last.refreshes = 0
    /\ last.deletes = 0
    /\ users[KeyOf(last.target)].exists
    /\ "home" \in DOMAIN users[KeyOf(last.target)].data
    /\ ~HasCred(users, KeyOf(last.target))

\* C12: whenever the stored blob is unparseable, or is marked invalid with
\* an expiry still ahead, or is marked invalid and the refresh fails,
\* locked_get returns None (it does not raise) and the credential field is
\* absent when it returns.
C12_TerminalFailure ==
    [][last'.op = "locked_get" =>
       LET key == KeyOf(last'.target)
       IN \A o \in Outcomes :
             (/\ HasCred(users, key)
              /\ LockedGet(last'.target, o)
              /\ \/ ~Parseable(Blob(users, key))
                 \/ /\ Parseable(Blob(users, key))
                    /\ Stored(users, key).invalid
                    /\ \/ Stored(users, key).token_expiry > now
                       \/ o[1] # "ok")
             => /\ last'.ret.kind = "None"
                /\ ~HasCred(users', key)]_vars

\* C13: when the stored credential is not marked invalid locked_get returns
\* it, with no token request and no write or deletion; every credential
\* locked_get returns has the storage that returned it as its store.
C13_ValidShortCircuit ==
    [][last'.op = "locked_get" =>
       LET a == last'.target
           key == KeyOf(last'.target)
       IN \A o \in Outcomes :
             LockedGet(a, o)
             => /\ (HasCredential(users, key) /\ ~Stored(users, key).invalid)
                   => /\ last'.ret.kind = "cred"
                      /\ last'.ret.cred.access_token
                           = Stored(users, key).access_token
                      /\ last'.ret.cred.refresh_token
                           = Stored(users, key).refresh_token
                      /\ last'.ret.cred.token_expiry
                           = Stored(users, key).token_expiry
                      /\ ~last'.ret.cred.invalid
                      /\ last'.refreshes = 0
                      /\ last'.deletes = 0
                      /\ users' = users
                /\ last'.ret.kind = "cred" => last'.ret.cred.store = a]_vars

\* A locked_get returned, attached to its storage and without token request,
\* a stored credential whose expiry has passed.
C13_Witness ==
    /\ last.op = "locked_get"
    /\ last.ret.kind = "cred"
    /\ last.ret.cred.store = last.target
    /\ last.refreshes = 0
    /\ last.ret.cred.token_expiry <= now
    /\ HasCredential(users, KeyOf(last.target))

\* C14: a locked_get makes at most one token request, makes it only for a
\* stored credential that reports its access token expired, and after a
\* request that failed it returns None.
C14_SingleRefresh ==
    [][last'.op = "locked_get" =>
       LET key == KeyOf(last'.target)
       IN \A o \in Outcomes :
             LockedGet(last'.target, o)
             => /\ last'.refreshes <= 1
                /\ last'.refreshes = 1
                   => /\ HasCredential(users, key)
                      /\ access_token_expired(Stored(users, key), now)
                /\ (last'.refreshes = 1 /\ o[1] # "ok")
                   => last'.ret.kind = "None"]_vars

\* C15: locked_get, locked_put and locked_delete never create or delete a
\* user document and change nothing but the credential field of the
\* document of the storage's own key.
C15_AdapterFrame ==
    [][last'.op \in {"locked_get", "locked_put", "locked_delete"} =>
       /\ \A k \in Keys : users'[k].exists = users[k].exists
       /\ SameFieldsExcept(KeyOf(last'.target), {CredField})
       /\ OtherUsersSame(KeyOf(last'.target))
       /\ UNCHANGED <<api_keys, oauth_clients>>]_vars

\* A locked_put ran on a storage whose user document does not exist while
\* the document of the other key exists.
C15_Witness ==
    /\ last.op = "locked_put"
    /\ ~users[KeyOf(last.target)].exists
    /\ \E k \in Keys : users[k].exists

\* The calls that can write a value into the credential field.
FieldWriters == {"set_user", "update_user", "locked_put"}

\* C16: after locked_delete, and after a locked_get that returned None, the
\* credential field of the key is absent; while it is absent every
\* locked_get on the key returns None and it becomes present only by a
\* write of the field; a locked_delete that follows a locked_delete on the
\* same storage returns normally and leaves the store as it was.
C16_DeleteSticky ==
    [][/\ last'.op = "locked_delete"
          => /\ ~HasCred(users', KeyOf(last'.target))
             /\ last'.ret.kind = "None"
             /\ (last.op = "locked_delete" /\ last.target = last'.target)
                => users' = users
       /\ last'.op = "locked_get"
          => /\ last'.ret.kind = "None"
                => ~HasCred(users', KeyOf(last'.target))
             /\ ~HasCred(users, KeyOf(last'.target))
                => (last'.ret.kind = "None" /\ users' = users)
       /\ \A k \in Keys :
             (~HasCred(users, k) /\ HasCred(users', k))
             => last'.op \in FieldWriters]_vars

\* A locked_delete has just run on a document that exists, and the field
\* is absent for every storage of that key.
C16_Witness ==
    /\ last.op = "locked_delete"
    /\ users[KeyOf(last.target)].exists
    /\ \A a \in Adapters :
          KeyOf(a) = KeyOf(last.target) => ~HasCred(users, KeyOf(a))

\* =================================================== properties (threads)
\* The thread is between acquire_lock and release_lock of a storage.
InCall(t) ==
    pc[t] \in {"get_read", "refresh", "update_check", "update_write",
               "release"}

\* C5 as stated: at most one of locked_get, locked_put and locked_delete is
\* in progress at any time for a user key.
C5_OneCallPerKey ==
    \A t1, t2 \in Threads :
        (t1 # t2 /\ InCall(t1) /\ InCall(t2))
        => KeyOf(local[t1].adapter) # KeyOf(local[t2].adapter)

\* C5: at most one of locked_get (with its refresh and cleanup delete),
\* locked_put and locked_delete is in progress at any time on a storage
\* object, and it is the call of the thread that holds the object's lock.
C5_OneCallPerStorage ==
    /\ \A t1, t2 \in Threads :
          (t1 # t2 /\ InCall(t1) /\ InCall(t2))
          => local[t1].adapter # local[t2].adapter
    /\ \A t \in Threads : InCall(t) => lock[local[t].adapter] = t

\* One thread is about to write for a storage while another thread is
\* inside a call on another storage.
C5_Witness ==
    \E t1, t2 \in Threads :
        /\ t1 # t2
        /\ pc[t1] = "update_write"
        /\ InCall(t2)
        /\ local[t1].adapter # local[t2].adapter

\* C6: over any constructions of Firestore, also by different threads, the
\* Firebase app is initialized at most once: initialize_app is called at
\* most once in the process.
C6_InitializeOnce == initCalls <= 1

====
